---- MODULE Spec2Model ----
(***************************************************************************)
(* Model of botwayorg/vitgo: the package.json analyzer and the defaulting  *)
(* passes of ViteConfig (utils.go), and the guarded asset file server with *)
(* its directory-listing wrapper and access logger (asset-server.go).      *)
(*                                                                         *)
(* Strings that the code inspects character by character (version strings, *)
(* request paths) are tuples of one-character strings; the empty string is *)
(* the empty tuple.  Strings the code only compares or copies are TLA+     *)
(* strings.                                                                *)
(***************************************************************************)
EXTENDS Integers, Sequences, FiniteSets, TLC

VARIABLES
    pkg,        \* the parsed package.json (PackageJSON)
    cfgFS,      \* the file store ViteConfig.FS: where it keeps package.json
    vc,         \* the ViteConfig
    before,     \* vc as it was when the last defaulting pass was entered
    calls,      \* the defaulting passes run so far, with their outcome
    profile,    \* what the last bare analyzePackageJSON call returned
    store,      \* the file store under wrapperFS
    handles,    \* every handle wrapperFS.Open has opened on the store
    lastOpen,   \* the last direct wrapperFS.Open call and what it returned
    vg,         \* the VitGo fields the handler reads, Debug apart
    reqPath,    \* r.URL.Path of the request
    outs        \* what the handler did with the request, by value of Debug

cfgVars == <<pkg, cfgFS, vc, before, calls, profile>>
fsVars == <<store, handles, lastOpen>>
httpVars == <<vg, reqPath, outs>>

vars == <<pkg, cfgFS, vc, before, calls, profile, store, handles, lastOpen,
          vg, reqPath, outs>>

\* a pointer is nil or holds one value
Nil == <<>>
Ptr(x) == <<x>>
Deref(p) == p[1]

-----------------------------------------------------------------------------
(* Character-level helpers.                                                *)

Digits == {"0", "1", "2", "3", "4", "5", "6", "7", "8", "9"}

\* strings.Split(s, sep) for a one-character separator: always at least one
\* part, empty parts kept.
RECURSIVE Split(_, _)
Split(s, sep) ==
    IF \A i \in 1..Len(s) : s[i] # sep
    THEN <<s>>
    ELSE LET k == CHOOSE i \in 1..Len(s) :
                      s[i] = sep /\ \A j \in 1..(i - 1) : s[j] # sep
         IN  <<SubSeq(s, 1, k - 1)>> \o Split(SubSeq(s, k + 1, Len(s)), sep)

\* the longest suffix of s left after the leading run of "^" ([\^]*)
RECURSIVE StripCarets(_)
StripCarets(s) ==
    IF Len(s) > 0 /\ s[1] = "^" THEN StripCarets(Tail(s)) ELSE s

\* \d+
IsNumber(s) == Len(s) > 0 /\ \A i \in 1..Len(s) : s[i] \in Digits

\* semVer.FindStringSubmatch(verStr) # nil, for ^[\^]*((\d+)\.\d+\.\d+)$
semVerMatches(verStr) ==
    LET parts == Split(StripCarets(verStr), ".")
    IN  Len(parts) = 3 /\ \A i \in 1..3 : IsNumber(parts[i])

\* getSemVer: the major and the full version, both empty without a match
getSemVer(verStr) ==
    IF semVerMatches(verStr)
    THEN [major |-> Split(StripCarets(verStr), ".")[1],
          full  |-> StripCarets(verStr)]
    ELSE [major |-> <<>>, full |-> <<>>]

-----------------------------------------------------------------------------
(* analyzePackageJSON                                                      *)

\* JSAppParams{}: the zero value
EmptyParams ==
    [ViteVersion   |-> <<>>, ViteMajorVer  |-> <<>>, PackageType   |-> "",
     MajorVer      |-> <<>>, EntryPoint    |-> "",   HasTypeScript |-> FALSE,
     IsVanilla     |-> FALSE,
     VueVersion    |-> <<>>, ReactVersion  |-> <<>>, PreactVersion |-> <<>>,
     SvelteVersion |-> <<>>, LitVersion    |-> <<>>]

supported == <<"vue", "react", "preact", "svelte", "lit">>

\* the body of the loop's svelte branch, once svelte is found
svelteHit(pkgJSON, output) ==
    LET sv == getSemVer(pkgJSON.DevDependencies["svelte"])
    IN  [output EXCEPT
            !.PackageType   = "svelte",
            !.MajorVer      = sv.major,
            !.SvelteVersion = sv.full,
            !.EntryPoint    = IF output.HasTypeScript THEN "src/main.ts"
                              ELSE "src/main.js"]

\* the body of the loop's other branch, once pkg is found in dependencies
dependencyHit(pkgJSON, output, p) ==
    LET sv == getSemVer(pkgJSON.Dependencies[p])
        o1 == [output EXCEPT !.PackageType = p, !.MajorVer = sv.major]
    IN  CASE p = "vue" ->
               [o1 EXCEPT !.VueVersion = sv.full,
                          !.EntryPoint = IF output.HasTypeScript
                                         THEN "src/main.ts" ELSE "src/main.js"]
          [] p = "react" ->
               [o1 EXCEPT !.ReactVersion = sv.full,
                          !.EntryPoint = IF output.HasTypeScript
                                         THEN "src/main.tsx" ELSE "src/main.jsx"]
          [] p = "preact" ->
               [o1 EXCEPT !.PreactVersion = sv.full,
                          !.EntryPoint = IF output.HasTypeScript
                                         THEN "src/main.tsx" ELSE "src/main.jsx"]
          [] p = "lit" ->
               [o1 EXCEPT !.LitVersion = sv.full, !.EntryPoint = ""]
          [] OTHER ->
               [o1 EXCEPT !.EntryPoint = "src/main.js"]

\* walkSupported with svelte read from dependencies like the others
RECURSIVE walkSupportedSvelteInDeps(_, _, _)
walkSupportedSvelteInDeps(pkgJSON, output, i) ==
    IF i > Len(supported) THEN output
    ELSE IF supported[i] \in DOMAIN pkgJSON.Dependencies
         THEN IF supported[i] = "svelte"
              THEN [output EXCEPT !.PackageType = "svelte",
                                  !.EntryPoint = IF output.HasTypeScript
                                                 THEN "src/main.ts"
                                                 ELSE "src/main.js"]
              ELSE dependencyHit(pkgJSON, output, supported[i])
         ELSE walkSupportedSvelteInDeps(pkgJSON, output, i + 1)

\* for _, pkg := range supported { ... break }, from index i on
RECURSIVE walkSupported(_, _, _)
walkSupported(pkgJSON, output, i) ==
    IF i > Len(supported) THEN output
    ELSE IF supported[i] = "svelte"
    THEN IF "svelte" \in DOMAIN pkgJSON.DevDependencies
         THEN svelteHit(pkgJSON, output)
         ELSE walkSupported(pkgJSON, output, i + 1)
    ELSE IF supported[i] \in DOMAIN pkgJSON.Dependencies
         THEN dependencyHit(pkgJSON, output, supported[i])
         ELSE walkSupported(pkgJSON, output, i + 1)

\* vanillaFallback with the untyped entry point under src/ like the others
vanillaFallbackNested(output) ==
    IF output.PackageType = ""
    THEN [output EXCEPT
            !.IsVanilla   = TRUE,
            !.PackageType = "vanilla",
            !.EntryPoint  = IF output.HasTypeScript THEN "src/main.ts"
                            ELSE "src/main.js"]
    ELSE output

\* the fallback after the loop
vanillaFallback(output) ==
    IF output.PackageType = ""
    THEN [output EXCEPT
            !.IsVanilla   = TRUE,
            !.PackageType = "vanilla",
            !.EntryPoint  = IF output.HasTypeScript THEN "src/main.ts"
                            ELSE "main.js"]
    ELSE output

analyzePackageJSON(pkgJSON) ==
    IF "vite" \notin DOMAIN pkgJSON.DevDependencies
    THEN Nil
    ELSE LET vv == getSemVer(pkgJSON.DevDependencies["vite"])
             o0 == [EmptyParams EXCEPT
                        !.ViteMajorVer  = vv.major,
                        !.ViteVersion   = vv.full,
                        !.HasTypeScript =
                            "typescript" \in DOMAIN pkgJSON.DevDependencies]
         IN  Ptr(vanillaFallback(walkSupported(pkgJSON, o0, 1)))

-----------------------------------------------------------------------------
(* ViteConfig and its defaulting passes                                    *)

\* The package-level constants the passes refer to.
DEFAULT_VITE_VERSION == <<"3">>
DEFAULT_PORT_V2 == "3000"
DEFAULT_PORT_V3 == "5173"

\* parsePackageJSON succeeds when the store holds a well-formed package.json
\* at the path the code computes: under JSProjectPath for an embed.FS, at the
\* store's root otherwise.
manifestPath(v, fs) ==
    (IF fs.embed THEN v.JSProjectPath \o "/" ELSE "") \o "package.json"

parsePackageJSON(v, fs) ==
    IF manifestPath(v, fs) \notin fs.files THEN [err |-> TRUE]
    ELSE IF ~fs.wellFormed THEN [err |-> TRUE]
    ELSE [err |-> FALSE]

\* getViteVersion: the version, the error, and the configuration it leaves
getViteVersion(v) ==
    IF v.ViteVersion # <<>>
    THEN [vc |-> v, version |-> v.ViteVersion, err |-> FALSE]
    ELSE IF v.DevDefaults = Nil
    THEN [vc |-> v, version |-> <<>>, err |-> TRUE]
    ELSE [vc      |-> [v EXCEPT !.ViteVersion = Deref(v.DevDefaults).ViteMajorVer],
          version |-> Deref(v.DevDefaults).ViteMajorVer,
          err     |-> FALSE]

\* fillDevelopment with the platform assigned whether or not it was set
fillDevelopmentOverwrite(v, defaults, version) ==
    [v EXCEPT
        !.Platform        = defaults.PackageType,
        !.EntryPoint      = IF @ = "" THEN defaults.EntryPoint ELSE @,
        !.URLPrefix       = IF @ = "" THEN "/src/" ELSE @,
        !.DevServerPort   = IF @ = ""
                            THEN (IF version = <<"2">> THEN DEFAULT_PORT_V2
                                  ELSE DEFAULT_PORT_V3)
                            ELSE @,
        !.DevServerDomain = IF @ = "" THEN "localhost" ELSE @]

\* the "if still empty" assignments at the end of SetDevelopmentDefaults
fillDevelopment(v, defaults, version) ==
    [v EXCEPT
        !.Platform        = IF @ = "" THEN defaults.PackageType ELSE @,
        !.EntryPoint      = IF @ = "" THEN defaults.EntryPoint ELSE @,
        !.URLPrefix       = IF @ = "" THEN "/src/" ELSE @,
        !.DevServerPort   = IF @ = ""
                            THEN (IF version = <<"2">> THEN DEFAULT_PORT_V2
                                  ELSE DEFAULT_PORT_V3)
                            ELSE @,
        !.DevServerDomain = IF @ = "" THEN "localhost" ELSE @]

\* the configuration after vc.DevDefaults = defaults and the version lookup
resolveVersion(v, defaults) ==
    LET gv == getViteVersion([v EXCEPT !.DevDefaults = defaults])
    IN  IF gv.err
        THEN [vc      |-> [gv.vc EXCEPT !.ViteVersion = DEFAULT_VITE_VERSION],
              version |-> DEFAULT_VITE_VERSION]
        ELSE [vc |-> gv.vc, version |-> gv.version]

SetDevelopmentDefaults(v, fs, pkgJSON) ==
    LET v1 == [v EXCEPT !.JSProjectPath = IF @ = "" THEN "frontend" ELSE @]
        defaults == analyzePackageJSON(pkgJSON)
    IN  IF parsePackageJSON(v1, fs).err THEN [vc |-> v1, err |-> TRUE]
        ELSE IF defaults = Nil THEN [vc |-> v1, err |-> TRUE]
        ELSE LET rv == resolveVersion(v1, defaults)
             IN  [vc  |-> fillDevelopment(rv.vc, Deref(defaults), rv.version),
                  err |-> FALSE]

SetProductionDefaults(v) ==
    [vc  |-> [v EXCEPT
                !.JSProjectPath = IF @ = "" THEN "frontend" ELSE @,
                !.AssetsPath    = IF @ = "" THEN "dist" ELSE @,
                !.URLPrefix     = IF @ = "" THEN "/assets/" ELSE @],
     err |-> FALSE]

-----------------------------------------------------------------------------
(* The file store and wrapperFS                                            *)

\* File-store paths are sequences of names, "." being the empty sequence;
\* a name is a tuple of characters.
X == <<"x">>
IndexHtml == <<"i", "n", "d", "e", "x", ".", "h", "t", "m", "l">>
Root == <<>>

\* what the store holds at a path: "dir", "file" or "none"
kindOf(st, path) ==
    IF path = Root THEN "dir"
    ELSE IF path \in DOMAIN st.tree THEN st.tree[path]
    ELSE "none"

\* the errors of the store
ErrNotExist(path) == [op |-> "open", path |-> path, kind |-> "not-exist"]
ErrStat(path)     == [op |-> "stat", path |-> path, kind |-> "io"]
ErrClose(path)    == [op |-> "close", path |-> path, kind |-> "io"]

\* the n-th handle a call opens
Handle(path, n) == [path |-> path, n |-> n]

\* filepath.Join(path, name)
Join(path, name) == Append(path, name)

\* wrapperFS.Open without the index.html test: a directory is handed out
OpenUnguarded(st, path, io) ==
    IF kindOf(st, path) = "none"
    THEN [file |-> Nil, err |-> Ptr(ErrNotExist(path)),
          opened |-> <<>>, closed |-> {}]
    ELSE IF io.statFails
    THEN [file |-> Nil, err |-> Ptr(ErrStat(path)),
          opened |-> <<Handle(path, 1)>>, closed |-> {}]
    ELSE [file |-> Ptr(Handle(path, 1)), err |-> Nil,
          opened |-> <<Handle(path, 1)>>, closed |-> {}]

\* wrapperFS.Open: the handle and the error it returns, the handles it
\* opened on the store, in order, and those of them it called Close on.
\* io says whether Stat and Close of the entry's handle fail in this call.
Open(st, path, io) ==
    IF kindOf(st, path) = "none"
    THEN [file |-> Nil, err |-> Ptr(ErrNotExist(path)),
          opened |-> <<>>, closed |-> {}]
    ELSE IF io.statFails
    THEN [file |-> Nil, err |-> Ptr(ErrStat(path)),
          opened |-> <<Handle(path, 1)>>, closed |-> {}]
    ELSE IF kindOf(st, path) = "dir"
    THEN LET index == Join(path, IndexHtml)
         IN  IF kindOf(st, index) = "none"
             THEN IF io.closeFails
                  THEN [file |-> Nil, err |-> Ptr(ErrClose(path)),
                        opened |-> <<Handle(path, 1)>>,
                        closed |-> {Handle(path, 1)}]
                  ELSE [file |-> Nil, err |-> Ptr(ErrNotExist(index)),
                        opened |-> <<Handle(path, 1)>>,
                        closed |-> {Handle(path, 1)}]
             ELSE [file |-> Ptr(Handle(path, 1)), err |-> Nil,
                   opened |-> <<Handle(path, 1), Handle(index, 2)>>,
                   closed |-> {}]
    ELSE [file |-> Ptr(Handle(path, 1)), err |-> Nil,
          opened |-> <<Handle(path, 1)>>, closed |-> {}]

-----------------------------------------------------------------------------
(* The response writer, the access logger and the file server              *)

\* What a handler does to its http.ResponseWriter and to the log is a
\* sequence of events: WriteHeader(status), Write, and access-log lines.
WriteHeader(status) == [ev |-> "WriteHeader", status |-> status]
Write == [ev |-> "Write", status |-> 0]
AccessLine(status) == [ev |-> "accesslog", status |-> status]

StatusOK == 200
StatusMovedPermanently == 301
StatusNotFound == 404
StatusInternalServerError == 500

\* the status the client receives: that of the first WriteHeader, or 200 when
\* the body is written first
RECURSIVE statusOf(_)
statusOf(events) ==
    IF events = <<>> THEN StatusOK
    ELSE IF Head(events).ev = "WriteHeader" THEN Head(events).status
    ELSE IF Head(events).ev = "Write" THEN StatusOK
    ELSE statusOf(Tail(events))

\* http.NotFound(w, r) and http.Error
httpError(status) == <<WriteHeader(status), Write>>

\* WriterWrapper: RetCode starts at 200 and follows every WriteHeader
RECURSIVE RetCode(_, _)
RetCode(events, code) ==
    IF events = <<>> THEN code
    ELSE RetCode(Tail(events),
                 IF Head(events).ev = "WriteHeader" THEN Head(events).status
                 ELSE code)

\* logRequest with the line's status not taken from the wrapper
logRequestFixedStatus(next) == next \o <<AccessLine(StatusOK)>>

\* logRequest(next): next runs on the wrapped writer, then the line is logged
logRequest(next) == next \o <<AccessLine(RetCode(next, StatusOK))>>

HasPrefix(s, prefix) ==
    Len(s) >= Len(prefix) /\ SubSeq(s, 1, Len(prefix)) = prefix
HasSuffix(s, suffix) ==
    Len(s) >= Len(suffix) /\ SubSeq(s, Len(s) - Len(suffix) + 1, Len(s)) = suffix

\* path.Clean of a rooted path, as the names left after it
RECURSIVE cleanNames(_, _)
cleanNames(parts, acc) ==
    IF parts = <<>> THEN acc
    ELSE IF Head(parts) \in {<<>>, <<".">>} THEN cleanNames(Tail(parts), acc)
    ELSE IF Head(parts) = <<".", ".">>
    THEN cleanNames(Tail(parts),
                    IF acc = <<>> THEN acc ELSE SubSeq(acc, 1, Len(acc) - 1))
    ELSE cleanNames(Tail(parts), Append(acc, Head(parts)))

\* fs.ValidPath
ValidPath(name) ==
    \/ name = <<".">>
    \/ \A i \in 1..Len(Split(name, "/")) :
           Split(name, "/")[i] \notin {<<>>, <<".">>, <<".", ".">>}

\* toHTTPError
toHTTPError(err) ==
    IF err.kind = "not-exist" THEN StatusNotFound ELSE StatusInternalServerError

\* http.FileServer(http.FS(root)).ServeHTTP for the URL path upath, root being
\* the directory base of the wrapped store: the events and the body served
FileServer(st, base, upath) ==
    LET url   == IF HasPrefix(upath, <<"/">>) THEN upath ELSE <<"/">> \o upath
        name  == base \o cleanNames(Split(url, "/"), <<>>)
        f     == Open(st, name, [statFails |-> FALSE, closeFails |-> FALSE])
        ff    == Open(st, Join(name, IndexHtml),
                      [statFails |-> FALSE, closeFails |-> FALSE])
        slash == url[Len(url)] = "/"
    IN  IF HasSuffix(url, <<"/">> \o IndexHtml)
        THEN [events |-> <<WriteHeader(StatusMovedPermanently)>>,
              body |-> [kind |-> "redirect", of |-> name]]
        ELSE IF f.err # Nil
        THEN [events |-> httpError(toHTTPError(Deref(f.err))),
              body |-> [kind |-> "error", of |-> <<>>]]
        ELSE IF kindOf(st, name) = "dir"
        THEN IF ~slash
             THEN [events |-> <<WriteHeader(StatusMovedPermanently)>>,
                   body |-> [kind |-> "redirect", of |-> name]]
             ELSE IF ff.err = Nil /\ kindOf(st, Join(name, IndexHtml)) = "file"
             THEN [events |-> <<WriteHeader(StatusOK), Write>>,
                   body |-> [kind |-> "file", of |-> Join(name, IndexHtml)]]
             ELSE [events |-> <<Write>>,
                   body |-> [kind |-> "listing",
                             of |-> IF ff.err = Nil THEN Join(name, IndexHtml)
                                    ELSE name]]
        ELSE IF slash
             THEN [events |-> <<WriteHeader(StatusMovedPermanently)>>,
                   body |-> [kind |-> "redirect", of |-> name]]
             ELSE [events |-> <<WriteHeader(StatusOK), Write>>,
                   body |-> [kind |-> "file", of |-> name]]

\* logRequest(http.FileServer(http.FS(root)))
loggingFS(st, base, upath) ==
    [FileServer(st, base, upath) EXCEPT !.events = logRequest(@)]

\* http.StripPrefix(prefix, loggingFS)
StripPrefix(prefix, st, upath) ==
    IF HasPrefix(upath, prefix) /\ prefix # <<>>
    THEN loggingFS(st, <<>>, SubSeq(upath, Len(prefix) + 1, Len(upath)))
    ELSE [events |-> httpError(StatusNotFound),
          body |-> [kind |-> "error", of |-> <<>>]]

-----------------------------------------------------------------------------
(* guardedFileServer                                                       *)

stripPrefix == <<"/">>
PreambleJs == <<"p", "r", "e", "a", "m", "b", "l", "e", ".", "j", "s">>

\* the loop over parts, looking at the last part only
hiddenLeaf(parts) ==
    Len(parts[Len(parts)]) > 0 /\ SubSeq(parts[Len(parts)], 1, 1) = <<".">>

\* the loop over parts: some stem is not empty and begins with "."
hiddenStem(parts) ==
    \E i \in 1..Len(parts) :
        Len(parts[i]) > 0 /\ SubSeq(parts[i], 1, 1) = <<".">>

\* fs.ReadDir(serveDir, "."): wrapperFS has no ReadDir of its own, so the
\* directory is opened through wrapperFS.Open and then listed
readDirFails(st) ==
    \/ Open(st, Root, [statFails |-> FALSE, closeFails |-> FALSE]).err # Nil
    \/ st.listFails

\* what one request leaves behind: whether the handler panicked, the events
\* on the writer and the access log, the body, the branch that answered, and
\* the diagnostic lines of the debug configuration
Outcome(panic, branch, r, diag) ==
    [panic |-> panic, branch |-> branch, events |-> r.events,
     body |-> r.body, diag |-> diag]

NotFoundPage == [events |-> httpError(StatusNotFound),
                 body |-> [kind |-> "error", of |-> <<>>]]

\* lines 104-123: the dispatch on the environment
dispatch(cfg, st, path, diag) ==
    IF cfg.Environment = "production"
    THEN IF ~ValidPath(cfg.AssetPath)
         THEN Outcome(FALSE, "sub",
                      [events |-> <<WriteHeader(StatusNotFound)>>,
                       body |-> [kind |-> "none", of |-> <<>>]], diag)
         ELSE Outcome(FALSE, "fileserver",
                      loggingFS(st, IF cfg.AssetPath = <<".">> THEN <<>>
                                    ELSE Split(cfg.AssetPath, "/"), path),
                      diag)
    ELSE Outcome(FALSE, "fileserver", StripPrefix(stripPrefix, st, path), diag)

\* the handler guardedFileServer returns, serving the request path `path`
\* with vg.Debug = debug
handler(cfg, debug, st, path) ==
    IF Len(path) < Len(stripPrefix)
    THEN \* r.URL.Path[prefixLen:] is out of range
         Outcome(TRUE, "panic",
                 [events |-> <<>>, body |-> [kind |-> "none", of |-> <<>>]],
                 <<>>)
    ELSE LET rest  == SubSeq(path, Len(stripPrefix) + 1, Len(path))
             parts == Split(rest, "/")
         IN  IF hiddenStem(parts)
             THEN Outcome(FALSE, "hidden", NotFoundPage, <<>>)
             ELSE IF Len(parts) > 0 /\ parts[Len(parts)] = PreambleJs
             THEN IF cfg.preamble
                  THEN Outcome(FALSE, "special",
                               [events |-> <<Write>>,
                                body |-> [kind |-> "preamble", of |-> <<>>]],
                               <<>>)
                  ELSE Outcome(FALSE, "special", NotFoundPage,
                               <<"could not load preamble">>)
             ELSE IF debug
             THEN IF readDirFails(st)
                  THEN Outcome(FALSE, "debug", NotFoundPage,
                               <<"entered FS", "could not read the asset dir">>)
                  ELSE dispatch(cfg, st, path, <<"entered FS", "items">>)
             ELSE dispatch(cfg, st, path, <<>>)

-----------------------------------------------------------------------------
(* Inputs                                                                  *)

MaxCalls == 2       \* defaulting passes run on one configuration

\* version strings: matching the pattern, with carets, and not matching
V291    == <<"2", ".", "9", ".", "1">>
V410c   == <<"^", "4", ".", "1", ".", "0">>
V1820   == <<"1", "8", ".", "2", ".", "0">>
V300cc  == <<"^", "^", "3", ".", "0", ".", "0">>
Vlatest == <<"l", "a", "t", "e", "s", "t">>
V30     == <<"3", ".", "0">>
V291b   == <<"2", ".", "9", ".", "1", "-", "b">>
Vc291c  == <<"2", ".", "^", "9", ".", "1">>

ViteVersionStrings == {V291, V410c, V300cc, Vlatest, V30, V291b, <<>>}
FrameworkVersionStrings == {V1820, Vlatest}

\* all maps from a subset of keys to values
Maps(keys, vals) == UNION {[ks -> vals] : ks \in SUBSET keys}

\* manifests for the analyzer: every supported framework in its own section,
\* svelte also in the section the code does not read it from, and react in
\* devDependencies, where the code does not look for it
AnalyzerManifests ==
    {[Dependencies    |-> d,
      DevDependencies |-> v @@ t @@ s] :
        d \in Maps({"vue", "react", "preact", "lit", "svelte"}, {V1820}),
        v \in Maps({"vite"}, ViteVersionStrings),
        t \in Maps({"typescript", "react"}, {Vlatest}),
        s \in Maps({"svelte"}, FrameworkVersionStrings)}

\* manifests for the defaulting passes
ConfigManifests ==
    {[Dependencies    |-> d,
      DevDependencies |-> v] :
        d \in Maps({"react"}, {V1820}),
        v \in Maps({"vite"}, {V291, V410c, Vlatest})}

\* the stores ViteConfig.FS may be
ConfigStores ==
    {[embed |-> FALSE, files |-> {"package.json"}, wellFormed |-> TRUE],
     [embed |-> TRUE,  files |-> {"frontend/package.json"}, wellFormed |-> TRUE],
     [embed |-> TRUE,  files |-> {"app/package.json"}, wellFormed |-> TRUE],
     [embed |-> FALSE, files |-> {"package.json"}, wellFormed |-> FALSE],
     [embed |-> FALSE, files |-> {}, wellFormed |-> TRUE]}

\* a profile an operator may have stored in DevDefaults beforehand
OperatorProfile ==
    [EmptyParams EXCEPT !.PackageType = "vue", !.EntryPoint = "src/app.js",
                        !.ViteMajorVer = <<"2">>, !.ViteVersion = V291]

\* ViteConfig{}: the zero value
EmptyConfig ==
    [JSProjectPath |-> "", Platform |-> "", EntryPoint |-> "",
     URLPrefix |-> "", DevServerPort |-> "", DevServerDomain |-> "",
     ViteVersion |-> <<>>, AssetsPath |-> "", DevDefaults |-> Nil]

\* the configurations an operator may hand over: any subset of fields set
OperatorConfigs ==
    [JSProjectPath   : {"", "app"},
     Platform        : {"", "solid"},
     EntryPoint      : {"", "src/index.js"},
     URLPrefix       : {"", "/static/"},
     DevServerPort   : {"", "8080"},
     DevServerDomain : {"", "dev.local"},
     ViteVersion     : {<<>>, <<"2">>, <<"4">>},
     AssetsPath      : {"", "build"},
     DevDefaults     : {Nil, Ptr(OperatorProfile)}]

MaxOpens == 2       \* direct wrapperFS.Open calls in one run

\* the trees a store may hold: at the top x (a file or a directory) and
\* index.html; in the directory x, index.html and x, a file or an empty
\* directory
TreePaths == {<<X>>, <<IndexHtml>>, <<X, X>>, <<X, IndexHtml>>}

Trees ==
    {t \in [TreePaths -> {"none", "file", "dir"}] :
        /\ t[<<IndexHtml>>] # "dir"
        /\ t[<<X, IndexHtml>>] # "dir"
        /\ t[<<X>>] # "dir" => (t[<<X, X>>] = "none" /\ t[<<X, IndexHtml>>] = "none")}

\* the paths Open is called with
OpenPaths == {Root} \cup TreePaths \cup {<<X, X, X>>}

IOOutcomes == [statFails : BOOLEAN, closeFails : BOOLEAN]
NoFailure == [statFails |-> FALSE, closeFails |-> FALSE]

\* the handler part of the state while no request is served
IdleHandler ==
    /\ vg = [Environment |-> "development", AssetPath |-> <<>>,
             preamble |-> TRUE]
    /\ reqPath = <<>>
    /\ outs = [d \in BOOLEAN |-> Nil]

\* the file-store part of the state while no store is in use
IdleStore ==
    /\ store = [tree |-> [p \in TreePaths |-> "none"], listFails |-> FALSE]
    /\ handles = <<>>
    /\ lastOpen = Nil

MaxPathLen == 4     \* pieces a request path is made of

\* request paths: every string of up to MaxPathLen pieces, a piece being one
\* of the characters "/", "." and "x", or the name preamble.js
PathPieces == {<<"/">>, <<".">>, <<"x">>, PreambleJs}

RECURSIVE Flatten(_)
Flatten(ps) == IF ps = <<>> THEN <<>> ELSE Head(ps) \o Flatten(Tail(ps))

RequestPaths ==
    {Flatten(ps) : ps \in UNION {[1..n -> PathPieces] : n \in 0..MaxPathLen}}

\* the trees behind the handler: those without a directory x/x
HandlerTrees == {t \in Trees : t[<<X, X>>] # "dir"}

\* the VitGo values: production, development and a third environment; an
\* AssetPath that names the directory x and the empty one; the embedded
\* react directory with and without preamble.js
VitGoValues ==
    [Environment : {"production", "development", "staging"},
     AssetPath   : {X, <<>>},
     preamble    : BOOLEAN]

-----------------------------------------------------------------------------
(* The defaulting passes as a state machine                                *)

InitConfig ==
    /\ pkg \in ConfigManifests
    /\ cfgFS \in ConfigStores
    /\ vc \in OperatorConfigs
    /\ before = vc
    /\ calls = <<>>
    /\ profile = Nil
    /\ IdleStore
    /\ IdleHandler

CallSetDevelopmentDefaults ==
    /\ Len(calls) < MaxCalls
    /\ LET r == SetDevelopmentDefaults(vc, cfgFS, pkg)
       IN  /\ vc' = r.vc
           /\ calls' = Append(calls, [op |-> "dev", err |-> r.err])
    /\ before' = vc
    /\ UNCHANGED <<pkg, cfgFS, profile>>
    /\ UNCHANGED fsVars
    /\ UNCHANGED httpVars

CallSetProductionDefaults ==
    /\ Len(calls) < MaxCalls
    /\ LET r == SetProductionDefaults(vc)
       IN  /\ vc' = r.vc
           /\ calls' = Append(calls, [op |-> "prod", err |-> r.err])
    /\ before' = vc
    /\ UNCHANGED <<pkg, cfgFS, profile>>
    /\ UNCHANGED fsVars
    /\ UNCHANGED httpVars

NextConfig == CallSetDevelopmentDefaults \/ CallSetProductionDefaults

SpecConfig == InitConfig /\ [][NextConfig]_vars

-----------------------------------------------------------------------------
(* The analyzer as a state machine                                         *)

InitAnalyze ==
    /\ pkg \in AnalyzerManifests
    /\ cfgFS = [embed |-> FALSE, files |-> {"package.json"}, wellFormed |-> TRUE]
    /\ vc = EmptyConfig
    /\ before = vc
    /\ calls = <<>>
    /\ profile = Nil
    /\ IdleStore
    /\ IdleHandler

CallAnalyzePackageJSON ==
    /\ calls = <<>>
    /\ profile' = analyzePackageJSON(pkg)
    /\ calls' = <<[op |-> "analyze", err |-> profile' = Nil]>>
    /\ UNCHANGED <<pkg, cfgFS, vc, before>>
    /\ UNCHANGED fsVars
    /\ UNCHANGED httpVars

NextAnalyze == CallAnalyzePackageJSON

SpecAnalyze == InitAnalyze /\ [][NextAnalyze]_vars

-----------------------------------------------------------------------------
(* Properties of the analyzer (under SpecAnalyze)                          *)

Analyzed == calls # <<>> /\ calls[1].op = "analyze"
inDeps(k) == k \in DOMAIN pkg.Dependencies
inDevDeps(k) == k \in DOMAIN pkg.DevDependencies

Platforms == {"vue", "react", "preact", "svelte", "lit", "vanilla"}

\* the platform the priority order picks for the manifest
firstHit ==
    IF inDeps("vue") THEN "vue"
    ELSE IF inDeps("react") THEN "react"
    ELSE IF inDeps("preact") THEN "preact"
    ELSE IF inDevDeps("svelte") THEN "svelte"
    ELSE IF inDeps("lit") THEN "lit"
    ELSE "vanilla"

versionFields(o) ==
    [vue |-> o.VueVersion, react |-> o.ReactVersion, preact |-> o.PreactVersion,
     svelte |-> o.SvelteVersion, lit |-> o.LitVersion]

\* C5: for a manifest with vite in devDependencies the analysis selects
\* exactly the first hit in the order vue, react, preact, svelte, lit (svelte
\* read from devDependencies, the others from dependencies), vanilla with
\* IsVanilla exactly when none hits, and no version field other than the
\* selected framework's is populated.
C5_FirstHitWins ==
    (Analyzed /\ inDevDeps("vite")) =>
        /\ profile # Nil
        /\ Deref(profile).PackageType \in Platforms
        /\ Deref(profile).PackageType = firstHit
        /\ Deref(profile).IsVanilla <=> (firstHit = "vanilla")
        /\ \A f \in DOMAIN versionFields(Deref(profile)) :
               f # firstHit => versionFields(Deref(profile))[f] = <<>>

\* a manifest declaring vue and react, and svelte where it is not read, has
\* been resolved to vue, with vue's version and nobody else's
C5_Witness ==
    /\ Analyzed /\ inDevDeps("vite")
    /\ inDeps("vue") /\ inDeps("react") /\ inDeps("svelte") /\ inDevDeps("svelte")
    /\ profile # Nil
    /\ Deref(profile).PackageType = "vue"
    /\ Deref(profile).VueVersion = V1820
    /\ Deref(profile).ReactVersion = <<>>

\* the entry point the convention gives a platform, typed or not
entryPointOf(platform, typed) ==
    CASE platform \in {"vue", "svelte"} ->
            IF typed THEN "src/main.ts" ELSE "src/main.js"
      [] platform \in {"react", "preact"} ->
            IF typed THEN "src/main.tsx" ELSE "src/main.jsx"
      [] platform = "lit" -> ""
      [] platform = "vanilla" ->
            IF typed THEN "src/main.ts" ELSE "main.js"

\* C6: the entry point is determined by the selected platform and by whether
\* typescript is in devDependencies, whatever the version strings and the
\* other dependencies are.
C6_EntryPointByPlatform ==
    (Analyzed /\ profile # Nil) =>
        /\ Deref(profile).HasTypeScript = inDevDeps("typescript")
        /\ Deref(profile).EntryPoint =
               entryPointOf(Deref(profile).PackageType, inDevDeps("typescript"))

\* an untyped vanilla project, whose entry point is not under src/, analyzed
\* from a manifest that carries unrelated and unparseable entries
C6_Witness ==
    /\ Analyzed /\ profile # Nil
    /\ ~inDevDeps("typescript") /\ inDeps("svelte") /\ inDevDeps("react")
    /\ pkg.DevDependencies["vite"] = Vlatest
    /\ Deref(profile).PackageType = "vanilla"
    /\ Deref(profile).EntryPoint = "main.js"

-----------------------------------------------------------------------------
(* Properties of the defaulting passes (under SpecConfig)                  *)

lastCall == calls[Len(calls)]
ConfigFields == DOMAIN EmptyConfig

\* a second consecutive successful call of the same pass changes nothing
secondCallIsNoOp ==
    (/\ Len(calls) >= 2
     /\ lastCall.op = calls[Len(calls) - 1].op
     /\ ~lastCall.err /\ ~calls[Len(calls) - 1].err) => vc = before

\* the fields of fs that were set before the last call kept their value
setFieldsKept(fs) ==
    \A f \in fs : before[f] # EmptyConfig[f] => vc[f] = before[f]

\* C4 as stated: both passes are idempotent and a successful call keeps
\* every field that was set before it, the detected profile included.
C4_AsStated ==
    (calls # <<>> /\ ~lastCall.err) =>
        secondCallIsNoOp /\ setFieldsKept(ConfigFields)

\* C4 amended: both passes are idempotent and a successful call keeps every
\* field that was set before it except the detected profile, which a
\* successful SetDevelopmentDefaults always replaces by the analysis of the
\* manifest.
C4_IdempotentKeepsOperatorFields ==
    (calls # <<>> /\ ~lastCall.err) =>
        /\ secondCallIsNoOp
        /\ setFieldsKept(ConfigFields \ {"DevDefaults"})
        /\ lastCall.op = "dev" => vc.DevDefaults = analyzePackageJSON(pkg)
        /\ lastCall.op = "prod" => vc.DevDefaults = before.DevDefaults

\* SetDevelopmentDefaults has succeeded twice in a row on a configuration
\* whose platform and profile the operator had set: the platform is kept,
\* the unset fields are filled, and the second call changed nothing
C4_Witness ==
    /\ Len(calls) = 2
    /\ calls[1] = [op |-> "dev", err |-> FALSE]
    /\ calls[2] = [op |-> "dev", err |-> FALSE]
    /\ vc.Platform = "solid"
    /\ vc.EntryPoint = "src/main.jsx"
    /\ vc.DevServerPort = DEFAULT_PORT_V2
    /\ vc.URLPrefix = "/src/"
    /\ vc = before

\* C9 as stated: after a successful SetDevelopmentDefaults on a configuration
\* whose ViteVersion was unset, a vite version string that does not match the
\* pattern leaves ViteVersion = DEFAULT_VITE_VERSION; and a port that was
\* unset is DEFAULT_PORT_V2 exactly when the resolved version is "2", and
\* DEFAULT_PORT_V3 otherwise.
C9_AsStated ==
    (calls # <<>> /\ lastCall.op = "dev" /\ ~lastCall.err) =>
        /\ (before.ViteVersion = <<>> /\ ~semVerMatches(pkg.DevDependencies["vite"]))
               => vc.ViteVersion = DEFAULT_VITE_VERSION
        /\ before.DevServerPort = "" =>
               vc.DevServerPort = IF vc.ViteVersion = <<"2">>
                                  THEN DEFAULT_PORT_V2 ELSE DEFAULT_PORT_V3

-----------------------------------------------------------------------------
(* wrapperFS.Open called directly, as a state machine                      *)

InitOpen ==
    /\ store \in [tree : Trees, listFails : {FALSE}]
    /\ handles = <<>>
    /\ lastOpen = Nil
    /\ pkg = [Dependencies |-> <<>>, DevDependencies |-> <<>>]
    /\ cfgFS = [embed |-> FALSE, files |-> {}, wellFormed |-> TRUE]
    /\ vc = EmptyConfig
    /\ before = vc
    /\ calls = <<>>
    /\ profile = Nil
    /\ IdleHandler

\* what became of the handles a call opened
fates(r, call) ==
    [i \in 1..Len(r.opened) |->
        [path     |-> r.opened[i].path,
         call     |-> call,
         closed   |-> r.opened[i] \in r.closed,
         returned |-> r.file = Ptr(r.opened[i])]]

CallOpen ==
    /\ Len(calls) < MaxOpens
    /\ \E path \in OpenPaths, io \in IOOutcomes :
         LET r == Open(store, path, io)
         IN  /\ lastOpen' = Ptr([path |-> path, io |-> io, ret |-> r])
             /\ handles' = handles \o fates(r, Len(calls) + 1)
             /\ calls' = Append(calls, [op |-> "open", err |-> r.err # Nil])
    /\ UNCHANGED <<store, pkg, cfgFS, vc, before, profile>>
    /\ UNCHANGED httpVars

NextOpen == CallOpen

SpecOpen == InitOpen /\ [][NextOpen]_vars

-----------------------------------------------------------------------------
(* Properties of wrapperFS.Open (under SpecOpen)                           *)

opPath == Deref(lastOpen).path
opIO   == Deref(lastOpen).io
opRet  == Deref(lastOpen).ret
opIndex == Join(opPath, IndexHtml)
bareDirectory == kindOf(store, opPath) = "dir" /\ kindOf(store, opIndex) = "none"
entryHandle == Ptr(Handle(opPath, 1))

\* C3 as stated: for a directory without index.html Open returns no handle
\* and the not-found error of opening <path>/index.html; for a directory
\* with index.html and for a non-directory entry it returns the entry's own
\* handle; for an absent path it returns the store's error unchanged.
C3_AsStated ==
    lastOpen # Nil =>
        /\ bareDirectory =>
              opRet.file = Nil /\ opRet.err = Ptr(ErrNotExist(opIndex))
        /\ (kindOf(store, opPath) = "dir" /\ ~bareDirectory) =>
              opRet.file = entryHandle /\ opRet.err = Nil
        /\ kindOf(store, opPath) = "file" =>
              opRet.file = entryHandle /\ opRet.err = Nil
        /\ kindOf(store, opPath) = "none" =>
              opRet.file = Nil /\ opRet.err = Ptr(ErrNotExist(opPath))

\* C3 amended: Open returns a handle or an error, never both.  For an absent
\* path it returns the store's error unchanged.  If Stat of the opened entry
\* fails it returns that error and no handle.  Otherwise, for a directory
\* without index.html, at any depth, it returns no handle, and the error is
\* the not-found error of opening <path>/index.html unless closing the
\* directory fails, in which case it is the error of Close; for a directory
\* with index.html and for a non-directory entry it returns the entry's own
\* handle.
C3_OpenGuardsDirectories ==
    lastOpen # Nil =>
        /\ (opRet.file = Nil) # (opRet.err = Nil)
        /\ kindOf(store, opPath) = "none" =>
              opRet.err = Ptr(ErrNotExist(opPath))
        /\ (kindOf(store, opPath) # "none" /\ opIO.statFails) =>
              opRet.err = Ptr(ErrStat(opPath))
        /\ bareDirectory => opRet.file = Nil
        /\ (bareDirectory /\ ~opIO.statFails) =>
              opRet.err = IF opIO.closeFails THEN Ptr(ErrClose(opPath))
                          ELSE Ptr(ErrNotExist(opIndex))
        /\ (kindOf(store, opPath) # "none" /\ ~bareDirectory /\ ~opIO.statFails) =>
              opRet.file = entryHandle

\* a directory below the top without index.html has been refused with the
\* error of the index.html probe, after a directory with index.html was opened
C3_Witness ==
    /\ lastOpen # Nil
    /\ Len(calls) = 2
    /\ ~calls[1].err
    /\ opPath = <<X, X>>
    /\ kindOf(store, <<X, X>>) = "dir"
    /\ opIO = NoFailure
    /\ opRet.file = Nil
    /\ opRet.err = Ptr(ErrNotExist(<<X, X, IndexHtml>>))

\* C10 as stated: every handle Open has opened on the store is the handle
\* it returned to its caller or has been closed.
C10_AsStated ==
    \A i \in 1..Len(handles) : handles[i].closed \/ handles[i].returned

-----------------------------------------------------------------------------
(* One request served by the handler, once with Debug off and once with    *)
(* Debug on, as a state machine                                            *)

InitServe ==
    /\ store \in [tree : HandlerTrees, listFails : BOOLEAN]
    /\ vg \in VitGoValues
    /\ reqPath \in RequestPaths
    /\ outs = [d \in BOOLEAN |-> Nil]
    /\ handles = <<>>
    /\ lastOpen = Nil
    /\ pkg = [Dependencies |-> <<>>, DevDependencies |-> <<>>]
    /\ cfgFS = [embed |-> FALSE, files |-> {}, wellFormed |-> TRUE]
    /\ vc = EmptyConfig
    /\ before = vc
    /\ calls = <<>>
    /\ profile = Nil

ServeHTTP ==
    /\ \E debug \in BOOLEAN :
         /\ outs[debug] = Nil
         /\ outs' = [outs EXCEPT ![debug] = Ptr(handler(vg, debug, store, reqPath))]
    /\ UNCHANGED <<store, vg, reqPath>>
    /\ UNCHANGED <<handles, lastOpen>>
    /\ UNCHANGED cfgVars

NextServe == ServeHTTP

SpecServe == InitServe /\ [][NextServe]_vars

-----------------------------------------------------------------------------
(* Properties of the handler (under SpecServe)                             *)

served(d) == outs[d] # Nil
out(d) == Deref(outs[d])

\* the request path without its first character, the mount prefix "/"
restOfPath == SubSeq(reqPath, 2, Len(reqPath))

\* some segment of the rest begins with ".": a "." at its start or right
\* after a "/"
hasHiddenSegment ==
    \E i \in 1..Len(restOfPath) :
        restOfPath[i] = "." /\ (i = 1 \/ restOfPath[i - 1] = "/")

\* what the client receives
response(d) == [status |-> statusOf(out(d).events), body |-> out(d).body]

\* the positions of the access-log lines among the events
accessLines(d) ==
    {i \in 1..Len(out(d).events) : out(d).events[i].ev = "accesslog"}

\* C1: a request path with a hidden segment, at any position, is answered
\* 404 and reaches neither the file server nor the special-file branch, in
\* every environment, with Debug on or off, also when it ends in preamble.js.
C1_HiddenNeverServed ==
    \A d \in BOOLEAN :
        (served(d) /\ hasHiddenSegment) =>
            /\ ~out(d).panic
            /\ out(d).branch = "hidden"
            /\ statusOf(out(d).events) = StatusNotFound
            /\ out(d).body.kind = "error"
            /\ accessLines(d) = {}

\* /./preamble.js, hidden in a directory position and ending in the special
\* file, has been answered 404 in production with Debug on
C1_Witness ==
    /\ reqPath = <<"/", ".", "/">> \o PreambleJs
    /\ vg.Environment = "production" /\ vg.preamble
    /\ served(TRUE)
    /\ statusOf(out(TRUE).events) = StatusNotFound
    /\ out(TRUE).branch = "hidden"

\* C2 as stated: every request path, the empty one included, is answered
\* with an HTTP response and the handler does not panic.
C2_AsStated ==
    \A d \in BOOLEAN :
        served(d) =>
            /\ ~out(d).panic
            /\ statusOf(out(d).events) \in
                   {StatusOK, StatusMovedPermanently, StatusNotFound,
                    StatusInternalServerError}

\* C7 as stated: the same request on the same store and environment gets
\* the same status and body with Debug on as with Debug off.
C7_AsStated ==
    (served(TRUE) /\ served(FALSE)) => response(TRUE) = response(FALSE)

\* C8 as stated: every request that is answered emits exactly one
\* access-log line, after the response, with the status of the response.
\* (Requests on which the handler panics are left out: they are C2's.)
C8_AsStated ==
    \A d \in BOOLEAN :
        (served(d) /\ ~out(d).panic) =>
            /\ Cardinality(accessLines(d)) = 1
            /\ accessLines(d) = {Len(out(d).events)}
            /\ out(d).events[Len(out(d).events)].status = statusOf(out(d).events)

\* the requests that are handed to the logged file server: not empty, no
\* hidden segment, not preamble.js, the debug listing (if any) succeeded, and
\* in production a derivable subtree, elsewhere a path under the prefix "/"
reachesFileServer(d) ==
    /\ Len(reqPath) >= 1
    /\ ~hasHiddenSegment
    /\ Split(restOfPath, "/")[Len(Split(restOfPath, "/"))] # PreambleJs
    /\ ~(d /\ readDirFails(store))
    /\ IF vg.Environment = "production" THEN ValidPath(vg.AssetPath)
       ELSE reqPath[1] = "/"

\* C8 amended: a request emits exactly one access-log line, after the
\* response has been produced and with the status set on the response (200
\* when none was set), exactly when it is handed to the logged file server;
\* every other request (hidden segment, preamble.js, failed debug listing,
\* failed production subtree derivation, a path outside the prefix in a
\* non-production environment, the empty path) emits none.
C8_OneLinePerFileServerRequest ==
    \A d \in BOOLEAN :
        served(d) =>
            /\ reachesFileServer(d) =>
                  /\ accessLines(d) = {Len(out(d).events)}
                  /\ Len(out(d).events) >= 2
                  /\ out(d).events[Len(out(d).events)].status
                         = statusOf(out(d).events)
            /\ ~reachesFileServer(d) => accessLines(d) = {}

\* the file server has answered 404 for /x/x in production, below the
\* subtree x, and the line logged after it says 404
C8_Witness ==
    /\ reqPath = <<"/", "x", "/", "x">>
    /\ vg.Environment = "production" /\ vg.AssetPath = X
    /\ served(FALSE)
    /\ out(FALSE).events =
           <<WriteHeader(StatusNotFound), Write, AccessLine(StatusNotFound)>>

====
